---- MODULE Spec2Model ----
(***************************************************************************)
(* Roommate task manager: monthly task rotation, the task store in its two *)
(* variants (SQLite: database.js 1-435 with the server of part_001;        *)
(* JSON file: database.js 437-635 with the server of part_000), and the    *)
(* completion of tasks.                                                    *)
(***************************************************************************)
EXTENDS Integers, Sequences, FiniteSets, TLC

(***************************************************************************)
(* Bounds of the model.                                                    *)
(***************************************************************************)
\* clock ticks explored; the wall clock starts at tick 0
MaxTime == 2
\* clock ticks that make up one calendar month
TicksPerMonth == 2
\* rows of data.json explored
MaxTaskRows == 8
\* years of rotation explored after the first one
YearSpan == 4

\* the month the wall clock starts in: December 2025, as year * 12 + (month - 1)
FirstPeriod == (2025 * 12) + 11
\* the first year of the rotation inputs
FirstYear == FirstPeriod \div 12

\* the completeTask requests of a run, in the order they arrive
CallOrder == <<"c1", "c2">>
Calls == {CallOrder[i] : i \in 1..Len(CallOrder)}
\* the logged-in users that issue requests
Actors == {"deepanshu", "sonu"}
\* the runs of ensureMonthlyTasks (boot, cron) and a direct createMonthlyTasks
EnsureProcs == {"boot", "cron"}
CreateProcs == {"boot", "cron", "direct"}

(***************************************************************************)
(* Program constants.                                                      *)
(***************************************************************************)
ROOMMATES == <<"deepanshu", "sonu", "sachin", "sintu">>
TASKS_SQLITE == <<"Kachra Fekna", "Pani Lana">>
TASKS_JSON == <<"Kitchen Cleaning", "Bathroom Cleaning", "Hall Sweeping", "Trash Removal">>
\* SQL NULL / JavaScript null in completed_at
NULL == -1

VARIABLES
  variant,       \* which build runs: "sqlite" or "json"
  now,           \* wall clock, in ticks
  tasks,         \* the tasks table / data.tasks, in insertion order
  task_history,  \* the task_history table (SQLite), in insertion order
  calls,         \* completeTask requests: position and outcome of each
  ens,           \* runs of ensureMonthlyTasks / createMonthlyTasks
  cronDue,       \* the '1 0 1 * *' job is due and has not fired yet
  listening,     \* app.listen has been called: requests are served
  ensured,       \* periods for which a run of ensureMonthlyTasks has completed
  faulted,       \* the store has failed a statement (at most one failure a run)
  calc,          \* rotation calculator: its input and the results it returned
  monthly_reports, \* the monthly_reports table / data.monthly_reports, in insertion order
  gens,          \* runs of report generation: position and outcome of each
  cal,           \* calendar clock of the cron jobs and what they last did
  status,        \* the last call of getAllUsersStatus and what it returned
  sessions,      \* the session store: req.session.user of every session id
  reply          \* the last HTTP request and the response it got

reportVars == <<monthly_reports, gens>>
webVars == <<status, sessions, reply>>
vars == <<variant, now, tasks, task_history, calls, ens, cronDue, listening, ensured, faulted, calc,
          monthly_reports, gens, cal, status, sessions, reply>>
storeVars == <<now, tasks, task_history, calls, ens, cronDue, listening, ensured, faulted>>

(***************************************************************************)
(* Clock: new Date(), getMonth() + 1, getFullYear().                       *)
(***************************************************************************)
PeriodOf(t) == FirstPeriod + (t \div TicksPerMonth)
getMonth(p) == p % 12
getFullYear(p) == p \div 12
NowMonth == getMonth(PeriodOf(now)) + 1
NowYear == getFullYear(PeriodOf(now))

TASKS == IF variant = "sqlite" THEN TASKS_SQLITE ELSE TASKS_JSON

(***************************************************************************)
(* Rotation calculator.                                                    *)
(***************************************************************************)
\* assignments[task] = value on a JavaScript object: overwrite the key in
\* place, or append it; Object.entries lists the keys in insertion order
ObjectAssign(obj, key, val) ==
  IF \E i \in 1..Len(obj) : obj[i][1] = key
    THEN [i \in 1..Len(obj) |-> IF obj[i][1] = key THEN <<key, val>> ELSE obj[i]]
    ELSE Append(obj, <<key, val>>)

BadSeed(month, year) == year + month

Seed(month, year) == (year * 12) + month

RECURSIVE forEachTaskNoShift(_, _, _)
forEachTaskNoShift(taskIndex, seed, assignments) ==
  IF taskIndex >= Len(TASKS) THEN assignments
  ELSE forEachTaskNoShift(taskIndex + 1, seed,
         ObjectAssign(assignments, TASKS[taskIndex + 1],
                      ROOMMATES[(seed % Len(ROOMMATES)) + 1]))

RECURSIVE forEachTask(_, _, _)
forEachTask(taskIndex, seed, assignments) ==
  IF taskIndex >= Len(TASKS) THEN assignments
  ELSE LET roommateIndex == (seed + taskIndex) % Len(ROOMMATES)
       IN forEachTask(taskIndex + 1, seed,
            ObjectAssign(assignments, TASKS[taskIndex + 1], ROOMMATES[roommateIndex + 1]))

calculateWithStride(month, year) ==
  [i \in 1..Len(TASKS) |->
     <<TASKS[i], ROOMMATES[((Seed(month, year) + (2 * (i - 1))) % Len(ROOMMATES)) + 1]>>]

calculateMonthlyAssignments(month, year) ==
  forEachTask(0, Seed(month, year), <<>>)


(***************************************************************************)
(* Records.                                                                *)
(***************************************************************************)
IdleCall ==
  [pc |-> "idle", taskName |-> "", username |-> "", month |-> 0, year |-> 0,
   changes |-> 0, task_id |-> 0, result |-> "none",
   atCall |-> "none"]

IdleEns == [pc |-> "idle", month |-> 0, year |-> 0, idx |-> 0, seq |-> FALSE]

InFlight(c) == calls[c].pc \notin {"idle", "done"}
Running(e) == ens[e].pc \notin {"idle", "done"}

SamePeriod(row, month, year) == row.month = month /\ row.year = year
SameKey(row, name, month, year) == row.name = name /\ SamePeriod(row, month, year)

\* SELECT * FROM tasks WHERE month = ? AND year = ?  /  data.tasks.filter(...)
PeriodTasks(table, month, year) ==
  LET InPeriod(row) == SamePeriod(row, month, year) IN SelectSeq(table, InPeriod)

\* the state of the task a request names, seen when the request arrives
TaskStateOf(rows) ==
  IF rows = {} THEN "absent"
  ELSE LET i == CHOOSE j \in rows : \A k \in rows : j <= k
       IN IF tasks[i].completed_at = NULL THEN "pending" ELSE "completed"

(***************************************************************************)
(* SQLite store: statements.                                               *)
(***************************************************************************)
\* UNIQUE(name, month, year) with INSERT OR IGNORE
SqlInsertBlind(table, name, assigned_to, month, year) ==
  Append(table, [id |-> Len(table) + 1, name |-> name, assigned_to |-> assigned_to,
                 month |-> month, year |-> year, completed |-> 0, completed_at |-> NULL])

SqlInsertOrIgnore(table, name, assigned_to, month, year) ==
  IF \E i \in 1..Len(table) : SameKey(table[i], name, month, year)
    THEN table
    ELSE Append(table, [id |-> Len(table) + 1, name |-> name, assigned_to |-> assigned_to,
                        month |-> month, year |-> year, completed |-> 0, completed_at |-> NULL])

\* WHERE name = ? AND month = ? AND year = ? AND assigned_to = ?
SqlUpdateAnyUser(row, taskName, month, year, username) ==
  SameKey(row, taskName, month, year)

SqlUpdateWhere(row, taskName, month, year, username) ==
  SameKey(row, taskName, month, year) /\ row.assigned_to = username

\* SET completed = 1, completed_at = CURRENT_TIMESTAMP
SqlUpdateToggle(row, stamp) ==
  [row EXCEPT !.completed = 1 - row.completed,
              !.completed_at = IF row.completed = 1 THEN NULL ELSE stamp]

SqlUpdateSet(row, stamp) == [row EXCEPT !.completed = 1, !.completed_at = stamp]

\* INSERT INTO task_history (task_id, username, action) VALUES (?, ?, 'completed')
SqlInsertHistoryTwice(table, task_id, username) ==
  LET row == [id |-> Len(table) + 1, task_id |-> task_id, username |-> username,
              action |-> "completed"]
  IN Append(Append(table, row), [row EXCEPT !.id = Len(table) + 2])

SqlInsertHistory(table, task_id, username) ==
  Append(table, [id |-> Len(table) + 1, task_id |-> task_id, username |-> username,
                 action |-> "completed"])

\* existingTasks.length === 0
AlwaysCreate(existingTasks) == TRUE

NeedsCreate(existingTasks) == Len(existingTasks) = 0


(***************************************************************************)
(* Initial state: initializeDatabase and createDefaultUsers have run on a  *)
(* fresh store, nothing else has.                                          *)
(***************************************************************************)
CalcIdle == [month |-> 1, year |-> FirstYear, window |-> <<>>]

StoreInit ==
  /\ now = 0
  /\ tasks = <<>>
  /\ task_history = <<>>
  /\ calls = [c \in Calls |-> IdleCall]
  /\ ens = [e \in CreateProcs |-> IdleEns]
  /\ cronDue = FALSE
  /\ listening = FALSE
  /\ ensured = {}
  /\ faulted = FALSE

(***************************************************************************)
(* Wall clock. A tick into the next month makes the '1 0 1 * *' job due.   *)
(***************************************************************************)
Tick ==
  /\ now < MaxTime
  /\ now' = now + 1
  /\ cronDue' = (cronDue \/ PeriodOf(now + 1) # PeriodOf(now))
  /\ UNCHANGED <<variant, tasks, task_history, calls, ens, listening, ensured, faulted, calc, reportVars, cal, webVars>>

(***************************************************************************)
(* SQLite variant: ensureMonthlyTasks and createMonthlyTasks.              *)
(***************************************************************************)
Quiet == (\A c \in Calls : ~InFlight(c)) /\ (\A e \in CreateProcs : ~Running(e))

\* ensureMonthlyTasks up to the queued db.all of getCurrentMonthTasks
EnsureStartedStale ==
  [pc |-> "read", month |-> getMonth(FirstPeriod) + 1, year |-> getFullYear(FirstPeriod),
   idx |-> 0, seq |-> (<<NowMonth, NowYear>> \in ensured)]

EnsureStarted ==
  [pc |-> "read", month |-> NowMonth, year |-> NowYear, idx |-> 0,
   seq |-> (<<NowMonth, NowYear>> \in ensured)]

\* startServer: a first start, or a restart once nothing is in flight
SqlBoot ==
  /\ variant = "sqlite"
  /\ ens["boot"].pc = "idle" \/ (ens["boot"].pc = "done" /\ Quiet)
  /\ ens' = [ens EXCEPT !["boot"] = EnsureStarted]
  /\ listening' = FALSE
  /\ UNCHANGED <<variant, now, tasks, task_history, calls, cronDue, ensured, faulted, calc, reportVars, cal, webVars>>

\* cron.schedule('1 0 1 * *')
SqlCron ==
  /\ variant = "sqlite"
  /\ cronDue
  /\ ~Running("cron")
  /\ ens' = [ens EXCEPT !["cron"] = EnsureStarted]
  /\ cronDue' = FALSE
  /\ UNCHANGED <<variant, now, tasks, task_history, calls, listening, ensured, faulted, calc, reportVars, cal, webVars>>

\* the outcomes of a statement: it runs (FALSE) or the store fails it (TRUE)
Faults == IF faulted THEN {FALSE} ELSE {FALSE, TRUE}
Fault(err) == faulted' = (faulted \/ err)

\* the run has returned; what it worked on is gone with its stack frame
EnsDone(e) ==
  IF e \in EnsureProcs THEN [IdleEns EXCEPT !.pc = "done", !.seq = ens[e].seq] ELSE IdleEns

\* ensureMonthlyTasks returns: the boot sequence goes on to app.listen
EnsureReturns(e, ok) ==
  /\ ens' = [ens EXCEPT ![e] = EnsDone(e)]
  /\ listening' = (listening \/ e = "boot")
  /\ ensured' = IF ok /\ e \in EnsureProcs
                  THEN ensured \cup {<<ens[e].month, ens[e].year>>}
                  ELSE ensured

\* the db.all of getCurrentMonthTasks runs; its callback decides
SqlEnsureRead(e) ==
  /\ variant = "sqlite"
  /\ ens[e].pc = "read"
  /\ \E err \in Faults :
       /\ Fault(err)
       /\ IF err THEN EnsureReturns(e, FALSE)
          ELSE LET existingTasks == PeriodTasks(tasks, ens[e].month, ens[e].year)
               IN IF NeedsCreate(existingTasks)
                    THEN /\ ens' = [ens EXCEPT ![e].pc = "insert", ![e].idx = 1]
                         /\ UNCHANGED <<listening, ensured>>
                    ELSE EnsureReturns(e, TRUE)
  /\ UNCHANGED <<variant, now, tasks, task_history, calls, cronDue, calc, reportVars, cal, webVars>>

\* createMonthlyTasks called directly, for the current period
SqlCreateMonthlyTasks ==
  /\ variant = "sqlite"
  /\ ~Running("direct")
  /\ ens' = [ens EXCEPT !["direct"] =
               [pc |-> "insert", month |-> NowMonth, year |-> NowYear,
                idx |-> 1, seq |-> FALSE]]
  /\ UNCHANGED <<variant, now, tasks, task_history, calls, cronDue, listening, ensured, faulted, calc, reportVars, cal, webVars>>

\* one stmt.run of createMonthlyTasks
SqlCreateInsert(e) ==
  /\ variant = "sqlite"
  /\ ens[e].pc = "insert"
  /\ LET assignments == calculateMonthlyAssignments(ens[e].month, ens[e].year)
         entry == assignments[ens[e].idx]
     IN /\ tasks' = SqlInsertOrIgnore(tasks, entry[1], entry[2], ens[e].month, ens[e].year)
        /\ ens' = IF ens[e].idx < Len(assignments)
                    THEN [ens EXCEPT ![e].idx = ens[e].idx + 1]
                    ELSE [ens EXCEPT ![e].pc = "finalize"]
  /\ UNCHANGED <<variant, now, task_history, calls, cronDue, listening, ensured, faulted, calc, reportVars, cal, webVars>>

\* stmt.finalize of createMonthlyTasks: resolve or reject
SqlCreateFinalize(e) ==
  /\ variant = "sqlite"
  /\ ens[e].pc = "finalize"
  /\ \E err \in Faults : Fault(err) /\ EnsureReturns(e, ~err)
  /\ UNCHANGED <<variant, now, tasks, task_history, calls, cronDue, calc, reportVars, cal, webVars>>


(***************************************************************************)
(* SQLite variant: POST /api/tasks/complete and completeTask.              *)
(***************************************************************************)
\* the task names requests carry: a name outside the period's rows arises
\* whenever the period has no rows yet
TaskNames == {TASKS[i] : i \in 1..Len(TASKS)}

KeyRows(taskName, month, year) ==
  {i \in 1..Len(tasks) : SameKey(tasks[i], taskName, month, year)}

ResolvedAnyway(c, why) == [calls EXCEPT ![c].pc = "done", ![c].result = "ok"]

Rejected(c, why) == [calls EXCEPT ![c].pc = "done", ![c].result = why]

\* c is the next request to arrive
NextCall(c) ==
  \E i \in 1..Len(CallOrder) :
    /\ CallOrder[i] = c
    /\ calls[c].pc = "idle"
    /\ \A j \in 1..(i - 1) : calls[CallOrder[j]].pc # "idle"

\* the handler up to the queued UPDATE
SqlCompleteTask(c) ==
  /\ variant = "sqlite"
  /\ listening
  /\ NextCall(c)
  /\ \E taskName \in TaskNames, username \in Actors :
       calls' = [calls EXCEPT ![c] =
         [pc |-> "update", taskName |-> taskName, username |-> username,
          month |-> NowMonth, year |-> NowYear, changes |-> 0, task_id |-> 0,
          result |-> "none",
          atCall |-> TaskStateOf(KeyRows(taskName, NowMonth, NowYear))]]
  /\ UNCHANGED <<variant, now, tasks, task_history, ens, cronDue, listening, ensured, faulted, calc, reportVars, cal, webVars>>

\* the UPDATE runs; its callback rejects or queues the SELECT
SqlExecUpdate(c) ==
  /\ variant = "sqlite"
  /\ calls[c].pc = "update"
  /\ \E err \in Faults :
       /\ Fault(err)
       /\ IF err
            THEN /\ calls' = Rejected(c, "storeerr")
                 /\ tasks' = tasks
            ELSE LET r == calls[c]
                     hit == {i \in 1..Len(tasks) :
                               SqlUpdateWhere(tasks[i], r.taskName, r.month, r.year, r.username)}
                     changes == Cardinality(hit)
                 IN /\ tasks' = [i \in 1..Len(tasks) |->
                                   IF i \in hit THEN SqlUpdateSet(tasks[i], now) ELSE tasks[i]]
                    /\ calls' = IF changes = 0
                                  THEN Rejected(c, "notfound")
                                  ELSE [calls EXCEPT ![c].pc = "select", ![c].changes = changes]
  /\ UNCHANGED <<variant, now, task_history, ens, cronDue, listening, ensured, calc, reportVars, cal, webVars>>

\* SELECT id FROM tasks WHERE name = ? AND month = ? AND year = ?
SqlExecSelect(c) ==
  /\ variant = "sqlite"
  /\ calls[c].pc = "select"
  /\ \E err \in Faults :
       /\ Fault(err)
       /\ IF err
            THEN calls' = Rejected(c, "storeerr")
            ELSE LET rows == KeyRows(calls[c].taskName, calls[c].month, calls[c].year)
                     first == CHOOSE i \in rows : \A k \in rows : i <= k
                 IN calls' = [calls EXCEPT ![c].pc = "insert", ![c].task_id = tasks[first].id]
  /\ UNCHANGED <<variant, now, tasks, task_history, ens, cronDue, listening, ensured, calc, reportVars, cal, webVars>>

\* INSERT INTO task_history (task_id, username, action); resolve or reject
SqlExecInsertHistory(c) ==
  /\ variant = "sqlite"
  /\ calls[c].pc = "insert"
  /\ \E err \in Faults :
       /\ Fault(err)
       /\ IF err
            THEN /\ calls' = Rejected(c, "storeerr")
                 /\ task_history' = task_history
            ELSE /\ task_history' = SqlInsertHistory(task_history, calls[c].task_id,
                                                     calls[c].username)
                 /\ calls' = [calls EXCEPT ![c].pc = "done", ![c].result = "ok"]
  /\ UNCHANGED <<variant, now, tasks, ens, cronDue, listening, ensured, calc, reportVars, cal, webVars>>

(***************************************************************************)
(* JSON-file variant. Every store function reads data.json, changes the    *)
(* data and writes it back without awaiting in between, and an await of an *)
(* already settled promise resumes before any other request or timer: each *)
(* operation is one step.                                                  *)
(***************************************************************************)
\* a task id no row has
NoSuchTaskId == MaxTime + Len(TASKS_JSON)

\* Date.now() and new Date().toISOString()
DateNow == now

\* an id as a request carries it: text that starts with a numeral
\* (digits = <<n>>) or with no digit (digits = <<>>), and what follows it
NaN == -2
String(n) == [digits |-> <<n>>, rest |-> ""]

\* parseInt: the leading numeral, whatever follows it; NaN without one
parseInt(text) == IF text.digits = <<>> THEN NaN ELSE text.digits[1]

\* the taskId values requests carry
TaskIds ==
  {String(tasks[i].id) : i \in 1..Len(tasks)}
    \cup {[digits |-> <<tasks[i].id>>, rest |-> "px"] : i \in 1..Len(tasks)}
    \cup {String(NoSuchTaskId), [digits |-> <<>>, rest |-> "abc"]}

\* createMonthlyTasks: the rows pushed onto data.tasks
JsonNewTasks(month, year, assignments) ==
  [index \in 1..Len(assignments) |->
     [id |-> DateNow + (index - 1), name |-> assignments[index][1],
      assigned_to |-> assignments[index][2], month |-> month, year |-> year,
      status |-> "pending", completed_at |-> NULL]]

JsonPush(table, month, year, assignments) ==
  table \o JsonNewTasks(month, year, assignments)

\* ensureMonthlyTasks, from startServer (e = "boot") or from the cron job
JsonEnsure(e) ==
  /\ variant = "json"
  /\ e \in EnsureProcs
  /\ e = "cron" => cronDue
  /\ LET month == NowMonth
         year == NowYear
         existingTasks == PeriodTasks(tasks, month, year)
     IN \E err \in Faults :
          /\ Fault(err)
          /\ (~err /\ NeedsCreate(existingTasks)) => Len(tasks) + Len(TASKS) <= MaxTaskRows
          /\ tasks' = IF ~err /\ NeedsCreate(existingTasks)
                        THEN JsonPush(tasks, month, year, calculateMonthlyAssignments(month, year))
                        ELSE tasks
          /\ ens' = [ens EXCEPT ![e] = [IdleEns EXCEPT !.pc = "done",
                                                     !.seq = (<<month, year>> \in ensured)]]
          /\ ensured' = IF err THEN ensured ELSE ensured \cup {<<month, year>>}
  /\ cronDue' = IF e = "cron" THEN FALSE ELSE cronDue
  /\ listening' = (listening \/ e = "boot")
  /\ UNCHANGED <<variant, now, task_history, calls, calc, reportVars, cal, webVars>>

\* createMonthlyTasks called directly, for the current period
JsonCreateMonthlyTasks ==
  /\ variant = "json"
  /\ Len(tasks) + Len(TASKS) <= MaxTaskRows
  /\ tasks' = JsonPush(tasks, NowMonth, NowYear, calculateMonthlyAssignments(NowMonth, NowYear))
  /\ UNCHANGED <<variant, now, task_history, calls, ens, cronDue, listening, ensured, faulted, calc, reportVars, cal, webVars>>

\* POST /api/tasks/complete: requireAuth, then completeTask(taskId)
JsonCompleteTask(c) ==
  /\ variant = "json"
  /\ listening
  /\ NextCall(c)
  /\ \E username \in Actors, taskId \in TaskIds :
       LET found == {i \in 1..Len(tasks) : tasks[i].id = parseInt(taskId)}
           first == CHOOSE i \in found : \A k \in found : i <= k
       IN /\ tasks' = IF found # {}
                        THEN [tasks EXCEPT ![first].status = "completed",
                                           ![first].completed_at = DateNow]
                        ELSE tasks
          /\ calls' = [calls EXCEPT ![c] =
               [pc |-> "done", taskName |-> IF found # {} THEN tasks[first].name ELSE "",
                username |-> username,
                month |-> IF found # {} THEN tasks[first].month ELSE 0,
                year |-> IF found # {} THEN tasks[first].year ELSE 0,
                changes |-> 0, task_id |-> parseInt(taskId),
                result |-> IF found # {} THEN "ok" ELSE "notfound",
                atCall |-> TaskStateOf(found)]]
  /\ UNCHANGED <<variant, now, task_history, ens, cronDue, listening, ensured, faulted, calc, reportVars, cal, webVars>>

(***************************************************************************)
(* Report aggregator: numbers.                                             *)
(* A JavaScript number that is the quotient of two integers is kept as a   *)
(* fraction in lowest terms, so that a value that is not an integer stays  *)
(* visible.                                                                *)
(***************************************************************************)
RECURSIVE GCD(_, _)
GCD(a, b) == IF b = 0 THEN a ELSE GCD(b, a % b)

Fraction(n, d) == LET g == GCD(n, d) IN [num |-> n \div g, den |-> d \div g]

\* a / b and x * k
Divide(a, b) == Fraction(a, b)
Times(x, k) == Fraction(x.num * k, x.den)

\* Math.round: the nearest integer, a half goes up
MathRound(x) == Fraction(((2 * x.num) + x.den) \div (2 * x.den), 1)

\* tasksAssigned > 0 ? Math.round((tasksCompleted / tasksAssigned) * 100) : 0
SqlPercentageDefault100(tasksCompleted, tasksAssigned) ==
  IF tasksAssigned > 0
    THEN MathRound(Times(Divide(tasksCompleted, tasksAssigned), 100))
    ELSE Fraction(100, 1)

SqlCompletionPercentage(tasksCompleted, tasksAssigned) ==
  IF tasksAssigned > 0
    THEN MathRound(Times(Divide(tasksCompleted, tasksAssigned), 100))
    ELSE Fraction(0, 1)

\* assignedCount > 0 ? (completedCount / assignedCount) * 100 : 100
JsonCompletionRate(completedCount, assignedCount) ==
  IF assignedCount > 0
    THEN Times(Divide(completedCount, assignedCount), 100)
    ELSE Fraction(100, 1)

(***************************************************************************)
(* Report aggregator: the users table and the queries on the store.        *)
(***************************************************************************)
\* createDefaultUsers: the roster, with ids in insertion order
users == [i \in 1..Len(ROOMMATES) |-> [id |-> i, username |-> ROOMMATES[i]]]

\* the runs of report generation: the end-of-month cron job, the admin
\* trigger (a direct call in the JSON variant), GET /api/reports/current
BatchProcs == {"cron", "admin"}
GenProcs == {"cron", "admin", "ondemand"}

IdleGen ==
  [pc |-> "idle", month |-> 0, year |-> 0, ui |-> 0, rows |-> <<>>,
   reports |-> <<>>, fetched |-> <<>>, skipped |-> {}, result |-> "none"]

\* SELECT * FROM tasks WHERE assigned_to = ? AND month = ? AND year = ?
\* data.tasks.filter(t => t.assigned_to === user.username && ...)
UserTasks(table, username, month, year) ==
  LET Mine(row) == row.assigned_to = username /\ SamePeriod(row, month, year)
  IN SelectSeq(table, Mine)

\* tasks.filter(t => t.completed).length
SqlCompletedAtInsert(rows) ==
  LET Hit(t) == t.completed = 1 /\ \E i \in 1..Len(rows) : rows[i].id = t.id
  IN Len(SelectSeq(tasks, Hit))

SqlCompleted(rows) == LET Hit(t) == t.completed = 1 IN Len(SelectSeq(rows, Hit))

\* userTasks.filter(t => t.status === 'completed').length
JsonCompleted(userTasks) ==
  LET Hit(t) == t.status = "completed" IN Len(SelectSeq(userTasks, Hit))

\* tasks.map(t => ({name, completed: Boolean(t.completed), completedAt})).
\* report_data is kept as the value its JSON text encodes; the row ids and
\* the generation timestamps of reports are left out.
SqlSnapshot(rows) ==
  [i \in 1..Len(rows) |->
     [name |-> rows[i].name, completed |-> (rows[i].completed = 1),
      completedAt |-> rows[i].completed_at]]

\* the report generateMonthlyReport resolves with
SqlReport(user, month, year, rows) ==
  LET tasksAssigned == Len(rows)
      tasksCompleted == SqlCompleted(rows)
  IN [userId |-> user.id, username |-> user.username, month |-> month, year |-> year,
      tasksAssigned |-> tasksAssigned, tasksCompleted |-> tasksCompleted,
      completionPercentage |-> SqlCompletionPercentage(tasksCompleted, tasksAssigned),
      reportData |-> SqlSnapshot(rows)]

\* the row that goes into monthly_reports
SqlReportRowAdding(report) ==
  LET Hit(r) == r.user_id = report.userId /\ r.month = report.month /\ r.year = report.year
      old == SelectSeq(monthly_reports, Hit)
  IN [user_id |-> report.userId, username |-> report.username,
      month |-> report.month, year |-> report.year,
      tasks_assigned |-> report.tasksAssigned,
      tasks_completed |-> report.tasksCompleted
                            + (IF old = <<>> THEN 0 ELSE old[1].tasks_completed),
      completion_percentage |-> report.completionPercentage,
      report_data |-> report.reportData]

SqlReportRow(report) ==
  [user_id |-> report.userId, username |-> report.username,
   month |-> report.month, year |-> report.year,
   tasks_assigned |-> report.tasksAssigned, tasks_completed |-> report.tasksCompleted,
   completion_percentage |-> report.completionPercentage,
   report_data |-> report.reportData]

SameReportKey(r, user_id, month, year) ==
  r.user_id = user_id /\ r.month = month /\ r.year = year

\* INSERT OR REPLACE under UNIQUE(user_id, month, year)
SqlInsertKeepBoth(table, row) == Append(table, row)

SqlInsertOrReplace(table, row) ==
  LET Other(r) == ~SameReportKey(r, row.user_id, row.month, row.year)
  IN Append(SelectSeq(table, Other), row)

\* the report generateAllMonthlyReports of the JSON store builds for a user
JsonReport(user, month, year) ==
  LET userTasks == UserTasks(tasks, user.username, month, year)
      assignedCount == Len(userTasks)
      completedCount == JsonCompleted(userTasks)
  IN [user_id |-> user.id, username |-> user.username, month |-> month, year |-> year,
      assigned_tasks |-> assignedCount, completed_tasks |-> completedCount,
      completion_percentage |-> JsonCompletionRate(completedCount, assignedCount),
      report_data |-> userTasks]

\* SELECT * FROM monthly_reports WHERE user_id = ? AND month = ? AND year = ?
\* data.monthly_reports.find(...): the first match, or none
getReportOfAnyUser(userId, month, year) ==
  LET Hit(r) == r.month = month /\ r.year = year
  IN SelectSeq(monthly_reports, Hit)

getMonthlyReport(userId, month, year) ==
  LET Hit(r) == SameReportKey(r, userId, month, year)
  IN SelectSeq(monthly_reports, Hit)

(***************************************************************************)
(* SQLite variant: generateAllMonthlyReports, generateMonthlyReport and    *)
(* GET /api/reports/current. Every db.all / db.run / db.get is one step.   *)
(***************************************************************************)
\* the for loop of generateAllMonthlyReports: the next user, or resolve(reports)
GenContinue(r) ==
  IF r.ui < Len(users)
    THEN [r EXCEPT !.pc = "select", !.ui = r.ui + 1, !.rows = <<>>]
    ELSE [r EXCEPT !.pc = "done", !.rows = <<>>, !.result = "ok"]

\* reject(err) / res.status(500)
GenFailed(r) == [r EXCEPT !.pc = "done", !.rows = <<>>, !.result = "err"]

\* generateMonthlyReport rejected: the batch logs the user and goes on,
\* GET /api/reports/current answers 500
GenAbortBatch(g, r) == GenFailed(r)

GenRejected(g, r) ==
  IF g \in BatchProcs
    THEN GenContinue([r EXCEPT !.skipped = r.skipped \cup {users[r.ui].id}])
    ELSE GenFailed(r)

\* generateMonthlyReport resolved with a report
GenResolved(g, r, report) ==
  LET got == [r EXCEPT !.reports = Append(r.reports, report)]
  IN IF g \in BatchProcs
       THEN GenContinue(got)
       ELSE [got EXCEPT !.pc = "done", !.rows = <<>>, !.result = "ok"]

\* the runs explored: the admin trigger (a direct call in the JSON variant)
\* arrives once the cron job's batch has returned
BatchMayStart(g) == g = "admin" => gens["cron"].pc = "done"

\* the end-of-month cron job or POST /api/reports/generate, for the current
\* period, up to the queued SELECT on users
SqlGenerateAll(g) ==
  /\ variant = "sqlite"
  /\ g \in BatchProcs
  /\ gens[g].pc = "idle"
  /\ BatchMayStart(g)
  /\ g = "admin" => listening
  /\ gens' = [gens EXCEPT ![g] = [IdleGen EXCEPT !.pc = "users", !.month = NowMonth,
                                                  !.year = NowYear]]
  /\ UNCHANGED <<variant, storeVars, calc, monthly_reports, cal, webVars>>

\* SELECT id, username FROM users
SqlGenUsers(g) ==
  /\ variant = "sqlite"
  /\ gens[g].pc = "users"
  /\ \E err \in Faults :
       /\ Fault(err)
       /\ gens' = [gens EXCEPT ![g] = IF err THEN GenFailed(gens[g]) ELSE GenContinue(gens[g])]
  /\ UNCHANGED <<variant, now, tasks, task_history, calls, ens, cronDue, listening, ensured,
                 calc, monthly_reports, cal, webVars>>

\* GET /api/reports/current up to the queued getMonthlyReport
SqlReportsCurrent ==
  /\ variant = "sqlite"
  /\ listening
  /\ gens["ondemand"].pc = "idle"
  /\ \E u \in 1..Len(users) :
       /\ users[u].username \in Actors
       /\ gens' = [gens EXCEPT !["ondemand"] =
                     [IdleGen EXCEPT !.pc = "get", !.month = NowMonth, !.year = NowYear,
                                     !.ui = u]]
  /\ UNCHANGED <<variant, storeVars, calc, monthly_reports, cal, webVars>>

\* getMonthlyReport runs: the stored report is returned, or generation starts
SqlGenGet(g) ==
  /\ variant = "sqlite"
  /\ gens[g].pc = "get"
  /\ \E err \in Faults :
       /\ Fault(err)
       /\ LET r == gens[g]
              report == getMonthlyReport(users[r.ui].id, r.month, r.year)
          IN gens' = [gens EXCEPT ![g] =
               IF err THEN GenFailed(r)
               ELSE IF report # <<>>
                 THEN [r EXCEPT !.pc = "done", !.fetched = <<Head(report)>>, !.result = "ok"]
                 ELSE [r EXCEPT !.pc = "select"]]
  /\ UNCHANGED <<variant, now, tasks, task_history, calls, ens, cronDue, listening, ensured,
                 calc, monthly_reports, cal, webVars>>

\* generateMonthlyReport: the SELECT on tasks runs
SqlGenSelect(g) ==
  /\ variant = "sqlite"
  /\ gens[g].pc = "select"
  /\ \E err \in Faults :
       /\ Fault(err)
       /\ LET r == gens[g]
          IN gens' = [gens EXCEPT ![g] =
               IF err THEN GenRejected(g, r)
               ELSE [r EXCEPT !.pc = "insert",
                              !.rows = UserTasks(tasks, users[r.ui].username, r.month, r.year)]]
  /\ UNCHANGED <<variant, now, tasks, task_history, calls, ens, cronDue, listening, ensured,
                 calc, monthly_reports, cal, webVars>>

\* generateMonthlyReport: the INSERT OR REPLACE runs; resolve or reject
SqlGenInsert(g) ==
  /\ variant = "sqlite"
  /\ gens[g].pc = "insert"
  /\ \E err \in Faults :
       /\ Fault(err)
       /\ LET r == gens[g]
              report == SqlReport(users[r.ui], r.month, r.year, r.rows)
          IN IF err
               THEN /\ gens' = [gens EXCEPT ![g] = GenRejected(g, r)]
                    /\ monthly_reports' = monthly_reports
               ELSE /\ gens' = [gens EXCEPT ![g] = GenResolved(g, r, report)]
                    /\ monthly_reports' = SqlInsertOrReplace(monthly_reports, SqlReportRow(report))
  /\ UNCHANGED <<variant, now, tasks, task_history, calls, ens, cronDue, listening, ensured,
                 calc, cal, webVars>>

(***************************************************************************)
(* JSON-file variant: generateAllMonthlyReports and GET /api/reports/current *)
(***************************************************************************)
\* the end-of-month cron job, or a direct call, for the current period
JsonGenerateAll(g) ==
  /\ variant = "json"
  /\ g \in BatchProcs
  /\ gens[g].pc = "idle"
  /\ BatchMayStart(g)
  /\ \E err \in Faults :
       /\ Fault(err)
       /\ LET reports == [i \in 1..Len(users) |-> JsonReport(users[i], NowMonth, NowYear)]
              r == [IdleGen EXCEPT !.month = NowMonth, !.year = NowYear]
          IN IF err
               THEN /\ gens' = [gens EXCEPT ![g] = GenFailed(r)]
                    /\ monthly_reports' = monthly_reports
               ELSE /\ gens' = [gens EXCEPT ![g] =
                                  [r EXCEPT !.pc = "done", !.reports = reports, !.result = "ok"]]
                    /\ monthly_reports' = monthly_reports \o reports
  /\ UNCHANGED <<variant, now, tasks, task_history, calls, ens, cronDue, listening, ensured,
                 calc, cal, webVars>>

\* GET /api/reports/current: getMonthlyReport for the session's user
JsonReportsCurrent ==
  /\ variant = "json"
  /\ listening
  /\ gens["ondemand"].pc = "idle"
  /\ \E u \in 1..Len(users) :
       /\ users[u].username \in Actors
       /\ \E err \in Faults :
            /\ Fault(err)
            /\ LET r == [IdleGen EXCEPT !.month = NowMonth, !.year = NowYear, !.ui = u]
                   report == getMonthlyReport(parseInt(String(users[u].id)), r.month, r.year)
               IN gens' = [gens EXCEPT !["ondemand"] =
                    IF err THEN GenFailed(r)
                    ELSE [r EXCEPT !.pc = "done", !.result = "ok",
                                   !.fetched = IF report = <<>> THEN <<>> ELSE <<Head(report)>>]]
  /\ UNCHANGED <<variant, now, tasks, task_history, calls, ens, cronDue, listening, ensured,
                 calc, monthly_reports, cal, webVars>>

ReportsInit ==
  /\ monthly_reports = <<>>
  /\ gens = [g \in GenProcs |-> IdleGen]

(***************************************************************************)
(* The store as the report aggregator can find it: any rows of the current *)
(* period that createMonthlyTasks and completeTask calls leave behind.     *)
(***************************************************************************)
\* rows of one period explored
MaxReportTasks == 3

ReportRows == IF Len(TASKS) < MaxReportTasks THEN Len(TASKS) ELSE MaxReportTasks

StoredTask(i, who, done) ==
  IF variant = "sqlite"
    THEN [id |-> i, name |-> TASKS[i], assigned_to |-> who,
          month |-> NowMonth, year |-> NowYear,
          completed |-> IF done THEN 1 ELSE 0, completed_at |-> IF done THEN now ELSE NULL]
    ELSE [id |-> i - 1, name |-> TASKS[i], assigned_to |-> who,
          month |-> NowMonth, year |-> NowYear,
          status |-> IF done THEN "completed" ELSE "pending",
          completed_at |-> IF done THEN now ELSE NULL]

StoredTables ==
  UNION {{[i \in 1..n |-> StoredTask(i, who[i], done[i])] :
            who \in [1..n -> Actors], done \in [1..n -> BOOLEAN]} : n \in 0..ReportRows}

\* the history rows the completions of a table's tasks have left (SQLite)
StoredHistory(table) ==
  IF variant = "sqlite"
    THEN LET Hit(t) == t.completed = 1
             done == SelectSeq(table, Hit)
         IN [h \in 1..Len(done) |->
               [id |-> h, task_id |-> done[h].id, username |-> done[h].assigned_to,
                action |-> "completed"]]
    ELSE <<>>

(***************************************************************************)
(* Scheduler hooks: the two cron jobs against a calendar clock. A Date is  *)
(* [year, month, date, hours, minutes] with month 0..11 as getMonth gives  *)
(* it. The clock visits 00:00, 00:01 and 23:55 of every day.               *)
(***************************************************************************)
\* calendar months a run of the clock covers
MaxMonths == 3

IsLeapYear(year) == (year % 4 = 0 /\ year % 100 # 0) \/ year % 400 = 0

DaysInMonth(year, month) ==
  IF month = 1 THEN (IF IsLeapYear(year) THEN 29 ELSE 28)
  ELSE IF month \in {3, 5, 8, 10} THEN 30 ELSE 31

\* Date.prototype.setDate with a day past the end of the month: it rolls over
setDate(d, dayValue) ==
  IF dayValue <= DaysInMonth(d.year, d.month)
    THEN [d EXCEPT !.date = dayValue]
    ELSE [d EXCEPT !.date = dayValue - DaysInMonth(d.year, d.month),
                   !.month = (d.month + 1) % 12,
                   !.year = IF d.month = 11 THEN d.year + 1 ELSE d.year]

\* the cron expressions: minute, hour, days of the month
RotationPattern == [minute |-> 1, hour |-> 0, days |-> {1}]
ReportPattern == [minute |-> 55, hour |-> 23, days |-> 28..31]

CronMatches(pattern, d) ==
  d.minutes = pattern.minute /\ d.hours = pattern.hour /\ d.date \in pattern.days

\* tomorrow.getDate() === 1
AnyLateDay(nowDate) == TRUE

TomorrowIsFirst(nowDate) ==
  LET tomorrow == setDate(nowDate, nowDate.date + 1) IN tomorrow.date = 1

CalStart(year, month) ==
  [d |-> [year |-> year, month |-> month, date |-> 1, hours |-> 0, minutes |-> 0],
   due |-> {}, left |-> MaxMonths, log |-> <<>>]

CalIdle == CalStart(FirstYear, getMonth(FirstPeriod))

\* the clock moves on to the next minute it visits; the scheduler marks the
\* jobs whose expression matches. Handlers run within their minute.
CalTick ==
  /\ cal.due = {}
  /\ cal.left > 0
  /\ LET d == cal.d
         next == IF d.hours = 0 /\ d.minutes = 0 THEN [d EXCEPT !.minutes = 1]
                 ELSE IF d.hours = 0 THEN [d EXCEPT !.hours = 23, !.minutes = 55]
                 ELSE [setDate(d, d.date + 1) EXCEPT !.hours = 0, !.minutes = 0]
         due == {j \in {"rotation", "report"} :
                   CronMatches(IF j = "rotation" THEN RotationPattern ELSE ReportPattern, next)}
     IN cal' = [cal EXCEPT !.d = next, !.due = due,
                           !.left = IF next.month # d.month THEN cal.left - 1 ELSE cal.left]
  /\ UNCHANGED <<variant, storeVars, calc, reportVars, webVars>>

\* cron.schedule('1 0 1 * *'): ensureMonthlyTasks for the current month
RotationJob ==
  /\ "rotation" \in cal.due
  /\ cal' = [cal EXCEPT !.due = cal.due \ {"rotation"},
                        !.log = Append(cal.log,
                                  [job |-> "ensureMonthlyTasks", month |-> cal.d.month + 1,
                                   year |-> cal.d.year, on |-> cal.d.date])]
  /\ UNCHANGED <<variant, storeVars, calc, reportVars, webVars>>

\* cron.schedule('55 23 28-31 * *'): generateAllMonthlyReports on the last day
ReportJob ==
  /\ "report" \in cal.due
  /\ cal' = [cal EXCEPT !.due = cal.due \ {"report"},
                        !.log = IF TomorrowIsFirst(cal.d)
                                  THEN Append(cal.log,
                                         [job |-> "generateAllMonthlyReports",
                                          month |-> cal.d.month + 1, year |-> cal.d.year,
                                          on |-> cal.d.date])
                                  ELSE cal.log]
  /\ UNCHANGED <<variant, storeVars, calc, reportVars, webVars>>

(***************************************************************************)
(* The rotation calculator called for one month after the other.           *)
(***************************************************************************)
LastYear == FirstYear + YearSpan

CalcCall ==
  /\ calc.year <= LastYear
  /\ LET entry == [month |-> calc.month, year |-> calc.year,
                   assignments |-> calculateMonthlyAssignments(calc.month, calc.year)]
         all == Append(calc.window, entry)
         keep == IF Len(all) > Len(ROOMMATES) THEN Tail(all) ELSE all
     IN calc' = [month |-> IF calc.month = 12 THEN 1 ELSE calc.month + 1,
                 year |-> IF calc.month = 12 THEN calc.year + 1 ELSE calc.year,
                 window |-> keep]
  /\ UNCHANGED <<variant, storeVars, reportVars, cal, webVars>>

(***************************************************************************)
(* Users and the status board.                                             *)
(***************************************************************************)
\* createDefaultUsers: the accounts a bootstrapped store holds. The JSON
\* store keeps no mobile number.
defaultUsers ==
  <<[username |-> "deepanshu", mobile |-> "7280892805", password |-> "deep123"],
    [username |-> "sonu", mobile |-> "8210658796", password |-> "sonu123"],
    [username |-> "sachin", mobile |-> "9162130124", password |-> "sachin123"],
    [username |-> "sintu", mobile |-> "9142018096", password |-> "sintu123"]>>

\* String.prototype.toLowerCase on the identifiers requests carry
toLowerCase(text) == IF text = "Sonu" THEN "sonu" ELSE text

\* bcrypt.hash and bcrypt.compare: a hash matches the password it was made of
bcryptHash(password) == <<"bcrypt", password>>
bcryptCompare(password, hash) == hash = bcryptHash(password)

\* the users table after createDefaultUsers (registerUser for every account)
usersTable ==
  [i \in 1..Len(defaultUsers) |->
     IF variant = "sqlite"
       THEN [id |-> i, username |-> toLowerCase(defaultUsers[i].username),
             mobile_number |-> defaultUsers[i].mobile,
             password_hash |-> bcryptHash(defaultUsers[i].password)]
       ELSE [id |-> i, username |-> defaultUsers[i].username,
             password_hash |-> bcryptHash(defaultUsers[i].password)]]

\* ORDER BY u.username over the bootstrapped accounts
OrderByUsername == <<"deepanshu", "sachin", "sintu", "sonu">>

\* Boolean(row.completed)
Boolean(n) == n # 0

\* SQLite getAllUsersStatus(month, year): users LEFT JOIN tasks, grouped by
\* username in row order
SqlGetAllUsersStatus(month, year) ==
  [k \in 1..Len(OrderByUsername) |->
     LET rows == UserTasks(tasks, OrderByUsername[k], month, year)
     IN [username |-> OrderByUsername[k],
         tasks |-> [i \in 1..Len(rows) |->
                      [name |-> rows[i].name, completed |-> Boolean(rows[i].completed),
                       completedAt |-> rows[i].completed_at]]]]

\* JSON getAllUsersStatus(): it takes no argument and counts the tasks of
\* the current month
JsonGetAllUsersStatus ==
  [k \in 1..Len(usersTable) |->
     LET userTasks == UserTasks(tasks, usersTable[k].username, NowMonth, NowYear)
         Pending(t) == t.status = "pending"
         Completed(t) == t.status = "completed"
     IN [username |-> usersTable[k].username,
         pendingTasks |-> Len(SelectSeq(userTasks, Pending)),
         completedTasks |-> Len(SelectSeq(userTasks, Completed))]]

IdleStatus == [month |-> 0, year |-> 0, result |-> <<>>, rejected |-> FALSE]

\* the periods a status board is asked for: the current one and the next
StatusPeriods == {PeriodOf(now), PeriodOf(now) + 1}

\* a call getAllUsersStatus(month, year): resolve with the board, or reject
\* when the store fails. The JSON function ignores what it is passed.
GetAllUsersStatus ==
  /\ \E p \in StatusPeriods, err \in Faults :
       LET month == getMonth(p) + 1
           year == getFullYear(p)
       IN /\ Fault(err)
          /\ status' = IF err
                         THEN [month |-> month, year |-> year, result |-> <<>>,
                               rejected |-> TRUE]
                         ELSE [month |-> month, year |-> year,
                               result |-> IF variant = "sqlite"
                                            THEN SqlGetAllUsersStatus(month, year)
                                            ELSE JsonGetAllUsersStatus,
                               rejected |-> FALSE]
  /\ UNCHANGED <<variant, now, tasks, task_history, calls, ens, cronDue, listening, ensured,
                 calc, reportVars, cal, sessions, reply>>
(***************************************************************************)
(* Sessions and the HTTP layer: express-session with its memory store,     *)
(* POST /api/login, POST /api/logout and requireAuth in front of every     *)
(* other /api route except /api/health.                                    *)
(***************************************************************************)
SessionIds == {"s1", "s2"}

\* req.session.user of a session nobody logged in on
NoUser == [id |-> 0, username |-> ""]

\* the routes registered behind requireAuth
SqlEndpoints ==
  {"GET /api/user", "GET /api/tasks/current", "GET /api/users/status",
   "POST /api/tasks/complete", "GET /api/history", "GET /api/reports/current",
   "GET /api/reports/history", "GET /api/reports/all", "POST /api/reports/generate"}
JsonEndpoints ==
  {"GET /api/tasks/current", "POST /api/tasks/complete", "GET /api/users/status",
   "GET /api/history", "GET /api/reports/current"}
Endpoints == IF variant = "sqlite" THEN SqlEndpoints ELSE JsonEndpoints
AllEndpoints == SqlEndpoints \cup JsonEndpoints

IdleReply == [endpoint |-> "", sid |-> "", identifier |-> "", password |-> "", status |-> 0]

Reply(endpoint, sid, code) ==
  [endpoint |-> endpoint, sid |-> sid, identifier |-> "", password |-> "", status |-> code]

WebInit ==
  /\ status = IdleStatus
  /\ sessions = [sid \in SessionIds |-> NoUser]
  /\ reply = IdleReply

\* what the login form can carry: a username, a mobile number, a username
\* in another case, an identifier of nobody, nothing
Identifiers ==
  {defaultUsers[i].username : i \in 1..Len(defaultUsers)}
    \cup {defaultUsers[i].mobile : i \in 1..Len(defaultUsers)}
    \cup {"Sonu", "nobody", ""}
Passwords == {defaultUsers[i].password : i \in 1..Len(defaultUsers)} \cup {"wrong", ""}

\* authenticateUser: the accounts the lookup finds. The SQLite store
\* compares the username column with what it is given, the JSON store
\* compares it with the lowercased argument.
FindUser(identifier) ==
  LET Hit(u) == IF variant = "sqlite"
                  THEN u.username = identifier
                  ELSE u.username = toLowerCase(identifier)
  IN SelectSeq(usersTable, Hit)

\* authenticateUser resolves with {id, username}, or rejects (NoUser)
authenticateUser(identifier, password) ==
  LET found == FindUser(identifier)
  IN IF found = <<>> THEN NoUser
     ELSE IF ~bcryptCompare(password, found[1].password_hash) THEN NoUser
     ELSE [id |-> found[1].id, username |-> found[1].username]

\* POST /api/login with body {mobileNumber, password} (SQLite server) or
\* {username, password} (JSON server)
Login(sid, identifier, password) ==
  /\ listening
  /\ \E err \in Faults :
       LET user == authenticateUser(identifier, password)
           missing == identifier = "" \/ password = ""
           code == IF missing THEN 400
                   ELSE IF err \/ user = NoUser THEN 401 ELSE 200
       IN /\ faulted' = (faulted \/ (err /\ ~missing))
          /\ sessions' = IF code = 200 THEN [sessions EXCEPT ![sid] = user] ELSE sessions
          /\ reply' = [endpoint |-> "POST /api/login", sid |-> sid,
                       identifier |-> identifier, password |-> password, status |-> code]
  /\ UNCHANGED <<variant, now, tasks, task_history, calls, ens, cronDue, listening, ensured,
                 calc, reportVars, cal, status>>

\* POST /api/logout: req.session.destroy removes the session from the store
Logout(sid) ==
  /\ listening
  /\ sessions' = [sessions EXCEPT ![sid] = NoUser]
  /\ reply' = Reply("POST /api/logout", sid, 200)
  /\ UNCHANGED <<variant, storeVars, calc, reportVars, cal, status>>

\* if (!req.session.user) return res.status(401)
AuthAlways(sid) == TRUE

requireAuth(sid) == sessions[sid] # NoUser

\* a request on a route behind requireAuth that requireAuth answers itself
Unauthorized(sid, endpoint) ==
  /\ listening
  /\ endpoint \in Endpoints
  /\ ~requireAuth(sid)
  /\ reply' = Reply(endpoint, sid, 401)
  /\ UNCHANGED <<variant, storeVars, calc, reportVars, cal, status, sessions>>

\* POST /api/tasks/complete past requireAuth, SQLite server: the handler up
\* to the queued UPDATE, for the user of the session
SqlPostTasksComplete(sid, c) ==
  /\ variant = "sqlite"
  /\ listening
  /\ requireAuth(sid)
  /\ NextCall(c)
  /\ \E taskName \in TaskNames :
       calls' = [calls EXCEPT ![c] =
         [pc |-> "update", taskName |-> taskName, username |-> sessions[sid].username,
          month |-> NowMonth, year |-> NowYear, changes |-> 0, task_id |-> 0,
          result |-> "none",
          atCall |-> TaskStateOf(KeyRows(taskName, NowMonth, NowYear))]]
  /\ UNCHANGED <<variant, now, tasks, task_history, ens, cronDue, listening, ensured, faulted,
                 calc, reportVars, cal, webVars>>

\* POST /api/tasks/complete past requireAuth, JSON server: completeTask(taskId)
JsonPostTasksComplete(sid, c) ==
  /\ variant = "json"
  /\ listening
  /\ requireAuth(sid)
  /\ NextCall(c)
  /\ \E taskId \in TaskIds :
       LET found == {i \in 1..Len(tasks) : tasks[i].id = parseInt(taskId)}
           first == CHOOSE i \in found : \A k \in found : i <= k
       IN /\ tasks' = IF found # {}
                        THEN [tasks EXCEPT ![first].status = "completed",
                                           ![first].completed_at = DateNow]
                        ELSE tasks
          /\ calls' = [calls EXCEPT ![c] =
               [pc |-> "done", taskName |-> IF found # {} THEN tasks[first].name ELSE "",
                username |-> sessions[sid].username,
                month |-> IF found # {} THEN tasks[first].month ELSE 0,
                year |-> IF found # {} THEN tasks[first].year ELSE 0,
                changes |-> 0, task_id |-> parseInt(taskId),
                result |-> IF found # {} THEN "ok" ELSE "notfound",
                atCall |-> TaskStateOf(found)]]
  /\ UNCHANGED <<variant, now, task_history, ens, cronDue, listening, ensured, faulted,
                 calc, reportVars, cal, webVars>>

\* GET /api/reports/current past requireAuth, SQLite server: up to the
\* queued getMonthlyReport for req.session.user.id
SqlGetReportsCurrent(sid) ==
  /\ variant = "sqlite"
  /\ listening
  /\ requireAuth(sid)
  /\ gens["ondemand"].pc = "idle"
  /\ gens' = [gens EXCEPT !["ondemand"] =
                [IdleGen EXCEPT !.pc = "get", !.month = NowMonth, !.year = NowYear,
                                !.ui = sessions[sid].id]]
  /\ UNCHANGED <<variant, storeVars, calc, monthly_reports, cal, webVars>>

\* POST /api/reports/generate past requireAuth (SQLite server only):
\* generateAllMonthlyReports for the current period, up to the queued SELECT
\* on users
SqlPostReportsGenerate(sid) ==
  /\ variant = "sqlite"
  /\ listening
  /\ requireAuth(sid)
  /\ gens["admin"].pc = "idle"
  /\ gens' = [gens EXCEPT !["admin"] = [IdleGen EXCEPT !.pc = "users", !.month = NowMonth,
                                                        !.year = NowYear]]
  /\ UNCHANGED <<variant, storeVars, calc, monthly_reports, cal, webVars>>

(***************************************************************************)
(* A stmt.run that the store fails. createMonthlyTasks gives stmt.run no   *)
(* callback, so sqlite3 emits the error as an 'error' event on the         *)
(* statement; nothing listens, the event is thrown and the process ends.   *)
(* The rows inserted before stay: every stmt.run commits on its own.       *)
(***************************************************************************)
\* the process is gone: its requests, runs, sessions and cron timers with it
ProcessExit ==
  /\ calls' = [c \in Calls |->
                 IF InFlight(c) THEN [calls[c] EXCEPT !.pc = "done", !.result = "lost"]
                 ELSE calls[c]]
  /\ ens' = [e \in CreateProcs |-> IdleEns]
  /\ gens' = [g \in GenProcs |->
                IF gens[g].pc \notin {"idle", "done"} THEN GenFailed(gens[g]) ELSE gens[g]]
  /\ sessions' = [sid \in SessionIds |-> NoUser]
  /\ cronDue' = FALSE
  /\ listening' = FALSE

\* one stmt.run of createMonthlyTasks fails
SqlCreateInsertFails(e) ==
  /\ variant = "sqlite"
  /\ ens[e].pc = "insert"
  /\ TRUE \in Faults
  /\ Fault(TRUE)
  /\ ProcessExit
  /\ UNCHANGED <<variant, now, tasks, task_history, ensured, calc, monthly_reports, cal,
                 status, reply>>

(***************************************************************************)
(* Specifications.                                                         *)
(***************************************************************************)
Init ==
  /\ variant \in {"sqlite", "json"}
  /\ StoreInit
  /\ calc = CalcIdle
  /\ ReportsInit
  /\ cal = CalIdle
  /\ WebInit

Next ==
  \/ Tick
  \/ SqlBoot
  \/ SqlCron
  \/ \E e \in EnsureProcs : SqlEnsureRead(e)
  \/ SqlCreateMonthlyTasks
  \/ \E e \in CreateProcs : SqlCreateInsert(e)
  \/ \E e \in CreateProcs : SqlCreateFinalize(e)
  \/ \E c \in Calls : SqlCompleteTask(c)
  \/ \E c \in Calls : SqlExecUpdate(c)
  \/ \E c \in Calls : SqlExecSelect(c)
  \/ \E c \in Calls : SqlExecInsertHistory(c)
  \/ \E e \in EnsureProcs : JsonEnsure(e)
  \/ JsonCreateMonthlyTasks
  \/ \E c \in Calls : JsonCompleteTask(c)

Spec == Init /\ [][Next]_vars

CalcInit ==
  /\ variant \in {"sqlite", "json"}
  /\ StoreInit
  /\ calc \in [month : 1..12, year : FirstYear..LastYear, window : {<<>>}]
  /\ ReportsInit
  /\ cal = CalIdle
  /\ WebInit

CalcNext == CalcCall

SpecCalc == CalcInit /\ [][CalcNext]_vars

\* the report aggregator on a store that holds any rows of the current
\* period, with one completeTask request and the rotation job beside it
ReportCalls == {CallOrder[1]}

ReportsStoreInit ==
  /\ variant \in {"sqlite", "json"}
  /\ now = 0
  /\ tasks \in StoredTables
  /\ task_history = StoredHistory(tasks)
  /\ calls = [c \in Calls |-> IdleCall]
  /\ ens = [e \in CreateProcs |-> IdleEns]
  /\ cronDue = (tasks = <<>>)
  /\ listening = TRUE
  /\ ensured = {}
  /\ faulted = FALSE
  /\ calc = CalcIdle
  /\ ReportsInit
  /\ cal = CalIdle
  /\ WebInit

ReportsNext ==
  \/ \E g \in BatchProcs : SqlGenerateAll(g)
  \/ \E g \in BatchProcs : SqlGenUsers(g)
  \/ SqlReportsCurrent
  \/ \E g \in GenProcs : SqlGenGet(g)
  \/ \E g \in GenProcs : SqlGenSelect(g)
  \/ \E g \in GenProcs : SqlGenInsert(g)
  \/ \E g \in BatchProcs : JsonGenerateAll(g)
  \/ JsonReportsCurrent
  \/ \E c \in ReportCalls : SqlCompleteTask(c)
  \/ \E c \in ReportCalls : SqlExecUpdate(c)
  \/ \E c \in ReportCalls : SqlExecSelect(c)
  \/ \E c \in ReportCalls : SqlExecInsertHistory(c)
  \/ \E c \in ReportCalls : JsonCompleteTask(c)
  \/ SqlCron
  \/ SqlEnsureRead("cron")
  \/ SqlCreateInsert("cron")
  \/ SqlCreateFinalize("cron")
  \/ JsonEnsure("cron")

SpecReports == ReportsStoreInit /\ [][ReportsNext]_vars

\* the cron jobs on the calendar, from the first day of any month
CronInit ==
  /\ variant \in {"sqlite", "json"}
  /\ StoreInit
  /\ calc = CalcIdle
  /\ ReportsInit
  /\ cal \in {CalStart(year, month) : year \in FirstYear..LastYear, month \in 0..11}
  /\ WebInit

CronNext == CalTick \/ RotationJob \/ ReportJob

SpecCron == CronInit /\ [][CronNext]_vars


(***************************************************************************)
(* Properties.                                                             *)
(***************************************************************************)
Done(c) == calls[c].pc = "done"

\* the rows a request is about: by (name, month, year) in the SQLite store,
\* by id in the JSON file
TargetRows(c) ==
  IF variant = "sqlite"
    THEN KeyRows(calls[c].taskName, calls[c].month, calls[c].year)
    ELSE {i \in 1..Len(tasks) : tasks[i].id = calls[c].task_id}

\* the task of request c exists and is assigned to the user who sent c
ByAssignee(c) ==
  /\ TargetRows(c) # {}
  /\ \A i \in TargetRows(c) : tasks[i].assigned_to = calls[c].username

\* the task of request c exists and is assigned to someone else
ByOther(c) ==
  /\ TargetRows(c) # {}
  /\ \A i \in TargetRows(c) : tasks[i].assigned_to # calls[c].username

\* C1: in the SQLite store the UPDATE of a completeTask sent by a user who is
\* not the assignee of the task changes no task row, the call ends there,
\* rejected with 'Task not found or not assigned to you' (or with the store's
\* own error when the statement failed), and no history row is appended.
C1_NonAssigneeRejected ==
  [][\A c \in Calls :
       (variant = "sqlite" /\ calls[c].pc = "update" /\ calls'[c] # calls[c] /\ ByOther(c))
         => /\ tasks' = tasks
            /\ task_history' = task_history
            /\ calls'[c].pc = "done"
            /\ calls'[c].changes = 0
            /\ calls'[c].result = IF faulted' # faulted THEN "storeerr" ELSE "notfound"]_vars

C1_Witness ==
  \E c \in Calls :
    /\ variant = "sqlite" /\ Done(c) /\ ByOther(c)
    /\ calls[c].result = "notfound"
    /\ \A i \in TargetRows(c) : tasks[i].completed = 0 /\ tasks[i].completed_at = NULL
    /\ task_history = <<>>

\* C2: in the JSON-file variant a completeTask request for a pending task sent
\* by a user who is not its assignee does not succeed.
C2_OnlyAssigneeCompletes ==
  \A c \in Calls :
    (variant = "json" /\ Done(c) /\ calls[c].atCall = "pending" /\ ByOther(c))
      => calls[c].result # "ok"

\* C3: a completeTask sent by the assignee for a task that was already
\* completed when the request arrived does not succeed, and the task has at
\* most one history row.
C3_CompletesOnce ==
  \A c \in Calls :
    (Done(c) /\ calls[c].atCall = "completed" /\ ByAssignee(c))
      => /\ calls[c].result # "ok"
         /\ \A i \in TargetRows(c) :
              Cardinality({h \in 1..Len(task_history) :
                             task_history[h].task_id = tasks[i].id}) <= 1

\* C4: the SQLite tasks table never holds two rows with the same
\* (name, month, year).
C4_UniqueTaskKey ==
  variant = "sqlite" =>
    \A i, j \in 1..Len(tasks) :
      i # j => ~SameKey(tasks[i], tasks[j].name, tasks[j].month, tasks[j].year)

\* two runs of createMonthlyTasks for the same period have both issued all
\* their inserts, and a task of the period is completed
C4_Witness ==
  /\ variant = "sqlite"
  /\ \E e1, e2 \in CreateProcs :
       /\ e1 # e2
       /\ ens[e1].pc = "finalize" /\ ens[e2].pc = "finalize"
       /\ ens[e1].month = ens[e2].month /\ ens[e1].year = ens[e2].year
       /\ Len(PeriodTasks(tasks, ens[e1].month, ens[e1].year)) = Len(TASKS)
  /\ \E i \in 1..Len(tasks) : tasks[i].completed = 1

\* C5: the JSON-file store never holds two rows with the same
\* (name, month, year).
C5_JsonUniqueTaskKey ==
  variant = "json" =>
    \A i, j \in 1..Len(tasks) :
      i # j => ~SameKey(tasks[i], tasks[j].name, tasks[j].month, tasks[j].year)

\* C6: a run of ensureMonthlyTasks that starts after another run for the same
\* period has returned successfully changes no task row in any of its steps.
C6_EnsureIdempotent ==
  [][\A e \in EnsureProcs :
       ( \/ /\ variant = "sqlite"
            /\ Running(e) /\ ens[e].seq /\ ens'[e] # ens[e]
         \/ /\ variant = "json"
            /\ ens'[e].seq
            /\ ens'[e] # ens[e] \/ (e = "cron" /\ cronDue /\ ~cronDue') )
       => tasks' = tasks]_vars

C6_Witness ==
  \E e \in EnsureProcs :
    /\ ens[e].pc = "done" /\ ens[e].seq
    /\ ~faulted
    /\ <<NowMonth, NowYear>> \in ensured
    /\ Len(PeriodTasks(tasks, NowMonth, NowYear)) = Len(TASKS)

\* the value an assignments object holds for a task
ObjectGet(obj, key) ==
  LET i == CHOOSE j \in 1..Len(obj) : obj[j][1] = key IN obj[i][2]

IndexOf(roommate) == CHOOSE i \in 1..Len(ROOMMATES) : ROOMMATES[i] = roommate

\* C7: every mapping calculateMonthlyAssignments returned gives the task at
\* catalog index i to ROOMMATES[(year*12 + month + i) mod |ROOMMATES|]; for
\* January 2026 the four tasks of the JSON variant's catalog go to sonu,
\* sachin, sintu and deepanshu.
C7_RotationFormula ==
  \A k \in 1..Len(calc.window) :
    LET w == calc.window[k]
    IN /\ Len(w.assignments) = Len(TASKS)
       /\ \A i \in 0..(Len(TASKS) - 1) :
            w.assignments[i + 1] =
              <<TASKS[i + 1],
                ROOMMATES[(((w.year * 12) + w.month + i) % Len(ROOMMATES)) + 1]>>
       /\ (variant = "json" /\ w.month = 1 /\ w.year = 2026)
            => w.assignments = <<<<"Kitchen Cleaning", "sonu">>,
                                 <<"Bathroom Cleaning", "sachin">>,
                                 <<"Hall Sweeping", "sintu">>,
                                 <<"Trash Removal", "deepanshu">>>>

C7_Witness ==
  /\ variant = "json"
  /\ \E k \in 1..Len(calc.window) :
       /\ calc.window[k].month = 1 /\ calc.window[k].year = 2026
       /\ ObjectGet(calc.window[k].assignments, "Kitchen Cleaning") = "sonu"
       /\ ObjectGet(calc.window[k].assignments, "Trash Removal") = "deepanshu"

\* C8: between the results for two consecutive months every task moves on by
\* one roster position, and over |ROOMMATES| consecutive months every task
\* goes to every roommate.
C8_RoundRobin ==
  /\ \A k \in 1..(Len(calc.window) - 1), i \in 1..Len(TASKS) :
       IndexOf(calc.window[k + 1].assignments[i][2]) - 1 =
         IndexOf(calc.window[k].assignments[i][2]) % Len(ROOMMATES)
  /\ Len(calc.window) = Len(ROOMMATES) =>
       \A i \in 1..Len(TASKS) :
         {calc.window[k].assignments[i][2] : k \in 1..Len(calc.window)} =
           {ROOMMATES[r] : r \in 1..Len(ROOMMATES)}

\* four consecutive months across a year's end have been calculated
C8_Witness ==
  /\ Len(calc.window) = Len(ROOMMATES)
  /\ \E k \in 1..(Len(calc.window) - 1) :
       /\ calc.window[k].month = 12
       /\ calc.window[k + 1].month = 1
       /\ calc.window[k + 1].year = calc.window[k].year + 1

\* C9: no two completeTask calls that both arrived while the task was pending
\* both report success.
C9_AtMostOneSuccess ==
  \A c, d \in Calls :
    (/\ c # d
     /\ variant = "sqlite"
     /\ Done(c) /\ Done(d)
     /\ calls[c].taskName = calls[d].taskName
     /\ calls[c].month = calls[d].month /\ calls[c].year = calls[d].year
     /\ calls[c].atCall = "pending" /\ calls[d].atCall = "pending")
      => ~(calls[c].result = "ok" /\ calls[d].result = "ok")

\* C10: a finished completeTask of the SQLite store has marked the task
\* completed if and only if it has written its history row.
C10_CompletionAtomic ==
  \A c \in Calls :
    (variant = "sqlite" /\ Done(c)) => (calls[c].changes > 0 <=> calls[c].result = "ok")

\* C11: no step deletes a Task row or changes its id, name, month, year or
\* assigned_to, and a task that is completed is still completed after every
\* step, in both stores.
C11_TaskRowsImmutable ==
  [][/\ Len(tasks') >= Len(tasks)
     /\ \A i \in 1..Len(tasks) :
          /\ tasks'[i].id = tasks[i].id
          /\ tasks'[i].name = tasks[i].name
          /\ tasks'[i].month = tasks[i].month
          /\ tasks'[i].year = tasks[i].year
          /\ tasks'[i].assigned_to = tasks[i].assigned_to
          /\ tasks[i].completed_at # NULL => tasks'[i].completed_at # NULL
          /\ variant = "sqlite" => (tasks[i].completed = 1 => tasks'[i].completed = 1)
          /\ variant = "json" =>
               (tasks[i].status = "completed" => tasks'[i].status = "completed")]_vars

\* a task completed in one month, a request for it that came in when it was
\* already completed, and the rows of the next month beside it
C11_Witness ==
  \E i, j \in 1..Len(tasks) :
    /\ tasks[i].completed_at # NULL
    /\ tasks[j].month # tasks[i].month
    /\ \E c \in Calls : Done(c) /\ i \in TargetRows(c) /\ calls[c].atCall = "completed"

\* C13: in the SQLite store the step in which a completeTask call resolves
\* appends one task_history row with the id of the call's task, the caller's
\* username and action 'completed'; no other step adds a row, and no step
\* changes or removes a row.
C13_HistoryAppendOnly ==
  [][variant = "sqlite" =>
       /\ \A c \in Calls :
            (calls[c].result # "ok" /\ calls'[c].result = "ok")
              => /\ Len(task_history') = Len(task_history) + 1
                 /\ LET h == task_history'[Len(task_history')]
                    IN /\ h.username = calls[c].username
                       /\ h.action = "completed"
                       /\ \E i \in KeyRows(calls[c].taskName, calls[c].month, calls[c].year) :
                            h.task_id = tasks[i].id
       /\ task_history' # task_history
            => \E c \in Calls : calls[c].result # "ok" /\ calls'[c].result = "ok"
       /\ Len(task_history') >= Len(task_history)
       /\ \A h \in 1..Len(task_history) : task_history'[h] = task_history[h]]_vars

\* two calls have resolved, by different users, each with its history row
C13_Witness ==
  /\ variant = "sqlite"
  /\ Len(task_history) = 2
  /\ task_history[1].username # task_history[2].username
  /\ \A c \in Calls : calls[c].result = "ok"

\* C12: a completeTask whose key names no Task row when the store looks it up
\* (SQLite: no row with that name, month and year when the UPDATE runs; JSON
\* file: no row with the id parseInt gives) fails, with 'Task not found or
\* not assigned to you' respectively false (or with the store's own error
\* when the statement failed), and changes no task, history row or report.
C12_UnknownKeyFails ==
  [][\A c \in Calls :
       /\ (variant = "sqlite" /\ calls[c].pc = "update" /\ calls'[c] # calls[c]
             /\ KeyRows(calls[c].taskName, calls[c].month, calls[c].year) = {})
            => /\ calls'[c].pc = "done"
               /\ calls'[c].result = IF faulted' # faulted THEN "storeerr" ELSE "notfound"
               /\ tasks' = tasks
               /\ task_history' = task_history
               /\ monthly_reports' = monthly_reports
       /\ (variant = "json" /\ calls[c].pc = "idle" /\ calls'[c] # calls[c]
             /\ \A i \in 1..Len(tasks) : tasks[i].id # calls'[c].task_id)
            => /\ calls'[c].pc = "done"
               /\ calls'[c].result = "notfound"
               /\ tasks' = tasks
               /\ task_history' = task_history
               /\ monthly_reports' = monthly_reports]_vars

\* a request for a task that has no row was answered while the store held
\* tasks and reports
C12_Witness ==
  \E c \in Calls :
    /\ Done(c) /\ TargetRows(c) = {} /\ calls[c].result = "notfound"
    /\ tasks # <<>>
    /\ monthly_reports # <<>>
    /\ variant = "sqlite"
    /\ gens["cron"].pc = "insert"

\* the stored reports of a key, and the numbers of a stored report
ReportsFor(table, user_id, month, year) ==
  LET Hit(r) == SameReportKey(r, user_id, month, year) IN SelectSeq(table, Hit)

Assigned(r) == IF variant = "sqlite" THEN r.tasks_assigned ELSE r.assigned_tasks
Completed(r) == IF variant = "sqlite" THEN r.tasks_completed ELSE r.completed_tasks
Numbers(r) == <<Assigned(r), Completed(r), r.completion_percentage>>

\* C14: every stored report of a user with at least one assigned task has
\* as completion_percentage the integer round(100 * completed / assigned),
\* between 0 and 100, in both stores.
C14_PercentageRounded ==
  \A k \in 1..Len(monthly_reports) :
    LET r == monthly_reports[k]
        a == Assigned(r)
        c == Completed(r)
    IN a > 0 =>
         /\ r.completion_percentage = [num |-> ((200 * c) + a) \div (2 * a), den |-> 1]
         /\ r.completion_percentage.num \in 0..100

\* C16: the store never holds two reports of the same (user, month, year).
C16_OneReportPerKey ==
  \A i, j \in 1..Len(monthly_reports) :
    i # j => ~SameReportKey(monthly_reports[i], monthly_reports[j].user_id,
                            monthly_reports[j].month, monthly_reports[j].year)

\* the step stores the report run g generated for the user it is at (SQLite)
SqlStores(g) ==
  /\ variant = "sqlite"
  /\ gens[g].pc = "insert"
  /\ gens'[g] # gens[g]
  /\ faulted' = faulted

\* the step is a successful generateAllMonthlyReports of the JSON store
JsonStores(g) ==
  /\ variant = "json"
  /\ gens[g].pc = "idle"
  /\ gens'[g].pc = "done"
  /\ gens'[g].result = "ok"
  /\ g \in BatchProcs

\* C15: generating the report of a user who has no task in the period
\* succeeds and stores and returns tasks_assigned = 0, tasks_completed = 0
\* and an empty snapshot, with completion_percentage 0 in the SQLite store
\* and 100 in the JSON-file store.
C15_ZeroTasksReport ==
  [][\A g \in GenProcs :
       /\ (SqlStores(g) /\ gens[g].rows = <<>>)
            => LET u == users[gens[g].ui]
                   stored == ReportsFor(monthly_reports', u.id, gens[g].month, gens[g].year)
                   back == gens'[g].reports[Len(gens'[g].reports)]
               IN /\ Len(gens'[g].reports) = Len(gens[g].reports) + 1
                  /\ back.userId = u.id
                  /\ <<back.tasksAssigned, back.tasksCompleted, back.completionPercentage,
                        back.reportData>> = <<0, 0, [num |-> 0, den |-> 1], <<>> >>
                  /\ Len(stored) = 1
                  /\ Numbers(stored[1]) = <<0, 0, [num |-> 0, den |-> 1]>>
                  /\ stored[1].report_data = <<>>
       /\ JsonStores(g)
            => \A i \in 1..Len(users) :
                 UserTasks(tasks, users[i].username, gens'[g].month, gens'[g].year) = <<>>
                   => LET back == gens'[g].reports[i]
                          stored == monthly_reports'[Len(monthly_reports) + i]
                      IN /\ back = stored
                         /\ stored.user_id = users[i].id
                         /\ Numbers(stored) = <<0, 0, [num |-> 100, den |-> 1]>>
                         /\ stored.report_data = <<>>]_vars

\* a batch has stored the report of a user without tasks next to that of a
\* user with tasks
C15_Witness ==
  \E i, j \in 1..Len(monthly_reports) :
    /\ Assigned(monthly_reports[i]) = 0
    /\ monthly_reports[i].report_data = <<>>
    /\ Assigned(monthly_reports[j]) > 0
    /\ monthly_reports[i].completion_percentage.num = IF variant = "sqlite" THEN 0 ELSE 100
    /\ variant = "sqlite"

\* C17: when a report is generated for a key whose stored report was taken
\* from the same task rows, the report returned has the stored report's
\* tasks_assigned, tasks_completed and completion_percentage, and so has the
\* report stored for the key after the call.
C17_RegenerationIdentical ==
  [][\A g \in GenProcs :
       /\ SqlStores(g)
            => LET u == users[gens[g].ui]
                   old == ReportsFor(monthly_reports, u.id, gens[g].month, gens[g].year)
                   new == ReportsFor(monthly_reports', u.id, gens[g].month, gens[g].year)
                   back == gens'[g].reports[Len(gens'[g].reports)]
               IN (old # <<>> /\ old[1].report_data = SqlSnapshot(gens[g].rows))
                    => /\ <<back.tasksAssigned, back.tasksCompleted,
                             back.completionPercentage>> = Numbers(old[1])
                       /\ new # <<>>
                       /\ Numbers(new[1]) = Numbers(old[1])
       /\ JsonStores(g)
            => \A i \in 1..Len(users) :
                 LET old == ReportsFor(monthly_reports, users[i].id, gens'[g].month, gens'[g].year)
                     new == ReportsFor(monthly_reports', users[i].id, gens'[g].month, gens'[g].year)
                     back == gens'[g].reports[i]
                 IN (old # <<>> /\ old[1].report_data = back.report_data)
                      => /\ Numbers(back) = Numbers(old[1])
                         /\ Numbers(new[1]) = Numbers(old[1])]_vars

\* both batches have returned reports of deepanshu taken from the same rows,
\* one of two tasks completed
C17_Witness ==
  /\ variant = "sqlite"
  /\ gens["cron"].result = "ok" /\ gens["admin"].result = "ok"
  /\ gens["cron"].reports # <<>> /\ gens["admin"].reports # <<>>
  /\ gens["cron"].reports[1] = gens["admin"].reports[1]
  /\ gens["cron"].reports[1].completionPercentage = [num |-> 50, den |-> 1]

\* C18: the rows a report is computed from are the user's rows of the period
\* in the one state in which the store was read, and the stored
\* tasks_assigned and tasks_completed are the counts of those rows, whatever
\* completeTask and ensureMonthlyTasks do meanwhile; tasks_completed never
\* exceeds tasks_assigned.
C18_ReportFromOneState ==
  [][\A g \in GenProcs :
       /\ (variant = "sqlite" /\ gens[g].pc = "select" /\ gens'[g].pc = "insert")
            => gens'[g].rows =
                 UserTasks(tasks, users[gens[g].ui].username, gens[g].month, gens[g].year)
       /\ SqlStores(g)
            => LET rows == gens[g].rows
                   stored == ReportsFor(monthly_reports', users[gens[g].ui].id,
                                        gens[g].month, gens[g].year)
               IN /\ Len(stored) = 1
                  /\ stored[1].tasks_assigned = Len(rows)
                  /\ stored[1].tasks_completed =
                       Cardinality({i \in 1..Len(rows) : rows[i].completed = 1})
                  /\ stored[1].tasks_completed <= stored[1].tasks_assigned
       /\ JsonStores(g)
            => \A i \in 1..Len(users) :
                 LET mine == {k \in 1..Len(tasks) :
                                /\ tasks[k].assigned_to = users[i].username
                                /\ SamePeriod(tasks[k], gens'[g].month, gens'[g].year)}
                     stored == monthly_reports'[Len(monthly_reports) + i]
                 IN /\ stored.assigned_tasks = Cardinality(mine)
                    /\ stored.completed_tasks =
                         Cardinality({k \in mine : tasks[k].status = "completed"})
                    /\ stored.completed_tasks <= stored.assigned_tasks]_vars

\* a task was completed while the batch that had already stored its
\* assignee's report was still running
C18_Witness ==
  /\ variant = "sqlite"
  /\ gens["cron"].pc \in {"select", "insert"}
  /\ \E c \in Calls, k \in 1..Len(monthly_reports) :
       /\ calls[c].result = "ok"
       /\ calls[c].atCall = "pending"
       /\ monthly_reports[k].username = calls[c].username
       /\ monthly_reports[k].tasks_assigned > 0
       /\ monthly_reports[k].tasks_completed = 0

\* C19: a batch of the SQLite store is rejected only when the query on users
\* fails; a batch that met a failure for one user resolves, returns exactly
\* one report for every user it did not skip, and each returned report's
\* key has a stored report.
C19_BatchIsolatesFailures ==
  \A g \in BatchProcs :
    (variant = "sqlite" /\ gens[g].pc = "done") =>
      /\ gens[g].result = "err" => gens[g].ui = 0
      /\ gens[g].result = "ok" =>
           /\ Len(gens[g].reports) + Cardinality(gens[g].skipped) = Len(users)
           /\ \A i \in 1..Len(users) :
                users[i].id \notin gens[g].skipped
                  <=> \E k \in 1..Len(gens[g].reports) : gens[g].reports[k].userId = users[i].id
           /\ \A k \in 1..Len(gens[g].reports) :
                ReportsFor(monthly_reports, gens[g].reports[k].userId,
                           gens[g].month, gens[g].year) # <<>>

\* a batch resolved with three reports after the generation for sonu, who
\* has a task, failed
C19_Witness ==
  \E g \in BatchProcs :
    /\ variant = "sqlite"
    /\ gens[g].pc = "done" /\ gens[g].result = "ok"
    /\ gens[g].skipped = {users[2].id}
    /\ Len(gens[g].reports) = 3
    /\ UserTasks(tasks, users[2].username, gens[g].month, gens[g].year) # <<>>
    /\ ReportsFor(monthly_reports, users[2].id, gens[g].month, gens[g].year) = <<>>

\* the calls of generateAllMonthlyReports the report job has made
ReportRuns == {k \in 1..Len(cal.log) : cal.log[k].job = "generateAllMonthlyReports"}

\* the report job of the clock's day has run
ReportedToday ==
  /\ cal.d.date = DaysInMonth(cal.d.year, cal.d.month)
  /\ cal.d.hours = 23
  /\ "report" \notin cal.due

\* C20: the report job calls generateAllMonthlyReports only on the last day
\* of a month, for that month and year, once for every month the clock has
\* gone through, and each run of the rotation job after the first comes
\* right after the report call for the month before.
C20_EndOfMonthOnce ==
  /\ \A k \in ReportRuns :
       LET e == cal.log[k]
       IN /\ e.on = (IF e.month = 2
                       THEN (IF (e.year % 4 = 0 /\ e.year % 100 # 0) \/ e.year % 400 = 0
                               THEN 29 ELSE 28)
                       ELSE IF e.month \in {4, 6, 9, 11} THEN 30 ELSE 31)
          /\ \A l \in ReportRuns :
               (cal.log[l].month = e.month /\ cal.log[l].year = e.year) => l = k
  /\ Cardinality(ReportRuns) = (MaxMonths - cal.left) + (IF ReportedToday THEN 1 ELSE 0)
  /\ ReportedToday =>
       LET e == cal.log[Len(cal.log)]
       IN e.job = "generateAllMonthlyReports"
            /\ e.month = cal.d.month + 1 /\ e.year = cal.d.year /\ e.on = cal.d.date
  /\ \A k \in 2..Len(cal.log) :
       cal.log[k].job = "ensureMonthlyTasks"
         => /\ k - 1 \in ReportRuns
            /\ (cal.log[k - 1].month % 12) + 1 = cal.log[k].month
            /\ cal.log[k].on = 1

\* the clock has gone through February of a leap year, March and April:
\* reports on the 29th, the 31st and the 30th, the rotation job between them
C20_Witness ==
  /\ Len(cal.log) = 2 * MaxMonths
  /\ \E k \in ReportRuns : cal.log[k].on = 29 /\ cal.log[k].month = 2
  /\ \E k \in ReportRuns : cal.log[k].on = 31
  /\ \E k \in ReportRuns : cal.log[k].on = 30
  /\ cal.log[Len(cal.log)].job = "generateAllMonthlyReports"

\* C21: a storage failure inside ensureMonthlyTasks propagates to its caller:
\* a boot run of ensureMonthlyTasks that the store failed does not go on to
\* app.listen
C21_EnsureFailurePropagates ==
  [][(~faulted /\ faulted' /\ ens["boot"] # ens'["boot"] /\ ens'["boot"].pc = "done")
       => ~listening']_vars

\* the status board on a store that holds any rows of the current period
StatusNext == GetAllUsersStatus

SpecStatus == ReportsStoreInit /\ [][StatusNext]_vars

\* the (name, completed flag, completion time) entries of a user's tasks of
\* a period, as the stored rows give them
BoardTasks(username, month, year) ==
  LET rows == UserTasks(tasks, username, month, year)
  IN [i \in 1..Len(rows) |->
        [name |-> rows[i].name,
         completed |-> IF variant = "sqlite" THEN rows[i].completed = 1
                       ELSE rows[i].status = "completed",
         completedAt |-> rows[i].completed_at]]

\* C22: getAllUsersStatus(month, year) returns exactly one entry per known
\* user, users without a task of the period included, and each entry lists
\* exactly the tasks of that period assigned to that user, with name,
\* completed flag and completion time
C22_StatusBoardListsTasks ==
  (status.month # 0 /\ ~status.rejected) =>
    /\ Len(status.result) = Len(usersTable)
    /\ \A u \in 1..Len(usersTable) :
         \E k \in 1..Len(status.result) :
           /\ status.result[k].username = usersTable[u].username
           /\ "tasks" \in DOMAIN status.result[k]
           /\ status.result[k].tasks =
                BoardTasks(usersTable[u].username, status.month, status.year)

\* the step in which getMonthlyReport runs for the request g
LookupStep(g) ==
  /\ gens'[g] # gens[g]
  /\ \/ variant = "sqlite" /\ gens[g].pc = "get"
     \/ variant = "json" /\ g = "ondemand" /\ gens[g].pc = "idle"

\* C23: getReport(userId, month, year) is a pure lookup: it returns the
\* stored report of that key or absent, generates nothing, and leaves tasks,
\* history and reports unchanged; for a key with no stored report no
\* MonthlyReport row is created
C23_ReportLookupPure ==
  [][\A g \in GenProcs :
       LookupStep(g)
         => /\ tasks' = tasks
            /\ task_history' = task_history
            /\ monthly_reports' = monthly_reports
            /\ gens'[g].reports = <<>>
            /\ LET stored == {i \in 1..Len(monthly_reports) :
                                SameReportKey(monthly_reports[i], users[gens'[g].ui].id,
                                              gens'[g].month, gens'[g].year)}
               IN gens'[g].result # "err"
                    => IF stored = {}
                         THEN gens'[g].fetched = <<>>
                         ELSE \E i \in stored : gens'[g].fetched = <<monthly_reports[i]>>
    ]_vars

\* a lookup returned the report stored for its user while another user's
\* report is stored too
C23_Witness ==
  /\ gens["ondemand"].pc = "done"
  /\ gens["ondemand"].fetched # <<>>
  /\ gens["ondemand"].fetched[1].user_id = users[gens["ondemand"].ui].id
  /\ \E i \in 1..Len(monthly_reports) :
       monthly_reports[i].user_id # users[gens["ondemand"].ui].id

\* the store once startServer has run on it: the tasks of the current
\* period exist and the server listens
RECURSIVE SqlCreated(_, _, _, _)
SqlCreated(table, assignments, month, year) ==
  IF assignments = <<>> THEN table
  ELSE SqlCreated(SqlInsertOrIgnore(table, Head(assignments)[1], Head(assignments)[2],
                                    month, year),
                  Tail(assignments), month, year)

BootedInit ==
  /\ variant \in {"sqlite", "json"}
  /\ now = 0
  /\ tasks = IF variant = "sqlite"
               THEN SqlCreated(<<>>, calculateMonthlyAssignments(NowMonth, NowYear),
                               NowMonth, NowYear)
               ELSE JsonPush(<<>>, NowMonth, NowYear,
                             calculateMonthlyAssignments(NowMonth, NowYear))
  /\ task_history = <<>>
  /\ calls = [c \in Calls |-> IdleCall]
  /\ ens = [e \in CreateProcs |->
              IF e = "boot" THEN [IdleEns EXCEPT !.pc = "done"] ELSE IdleEns]
  /\ cronDue = FALSE
  /\ listening = TRUE
  /\ ensured = {<<NowMonth, NowYear>>}
  /\ faulted = FALSE
  /\ calc = CalcIdle
  /\ ReportsInit
  /\ cal = CalIdle
  /\ WebInit

\* login and logout requests, and requests that requireAuth turns away
LoginNext ==
  \/ \E sid \in SessionIds, identifier \in Identifiers, password \in Passwords :
       Login(sid, identifier, password)
  \/ \E sid \in SessionIds : Logout(sid)
  \/ \E sid \in SessionIds, endpoint \in AllEndpoints : Unauthorized(sid, endpoint)

SpecLogin == BootedInit /\ [][LoginNext]_vars

\* the account a mobile number or a username belongs to (0: nobody's)
AccountOf(text) ==
  LET Owns(i) == defaultUsers[i].mobile = text \/ defaultUsers[i].username = text
  IN IF \E i \in 1..Len(defaultUsers) : Owns(i)
       THEN CHOOSE i \in 1..Len(defaultUsers) : Owns(i)
       ELSE 0

IsMobile(text) == \E i \in 1..Len(defaultUsers) : defaultUsers[i].mobile = text

\* C24: in the SQLite variant every bootstrapped user can log in through
\* POST /api/login with their mobile number and their correct password and
\* gets a session for their own username; an unknown identifier or a wrong
\* password is rejected and creates no session
C24_LoginWithMobileNumber ==
  (variant = "sqlite" /\ ~faulted /\ reply.endpoint = "POST /api/login"
     /\ reply.identifier # "" /\ reply.password # "")
    => LET i == AccountOf(reply.identifier)
       IN /\ (IsMobile(reply.identifier) /\ reply.password = defaultUsers[i].password)
               => /\ reply.status = 200
                  /\ sessions[reply.sid].username = defaultUsers[i].username
          /\ (i = 0 \/ (i # 0 /\ reply.password # defaultUsers[i].password))
               => reply.status = 401

\* startServer, the rotation cron job and the clock, on a fresh store
EnsureNext ==
  \/ Tick
  \/ SqlBoot
  \/ SqlCron
  \/ \E e \in EnsureProcs : SqlEnsureRead(e)
  \/ \E e \in EnsureProcs : SqlCreateInsert(e)
  \/ \E e \in EnsureProcs : SqlCreateInsertFails(e)
  \/ \E e \in EnsureProcs : SqlCreateFinalize(e)
  \/ \E e \in EnsureProcs : JsonEnsure(e)

SpecEnsure == Init /\ [][EnsureNext]_vars

\* the periods that hold a row
StoredPeriods == {<<tasks[i].month, tasks[i].year>> : i \in 1..Len(tasks)}

\* the period holds exactly one row per catalog entry, assigned as
\* calculateMonthlyAssignments gives
PeriodWhole(month, year) ==
  LET rows == PeriodTasks(tasks, month, year)
      assignments == calculateMonthlyAssignments(month, year)
  IN /\ Len(rows) = Len(TASKS)
     /\ \A k \in 1..Len(assignments) :
          \E i \in 1..Len(rows) :
            /\ rows[i].name = assignments[k][1]
            /\ rows[i].assigned_to = assignments[k][2]
            /\ rows[i].completed_at = NULL

\* C25: each period holds either no Task rows or exactly one row per catalog
\* entry, created pending with the assignee calculateMonthlyAssignments
\* gives; once no run of createMonthlyTasks is under way a period holds no
\* partial set of rows, also after the store failed partway through
\* createMonthlyTasks and ensureMonthlyTasks ran again
C25_PeriodsWhole ==
  (\A e \in CreateProcs : ~Running(e))
    => \A p \in StoredPeriods : PeriodWhole(p[1], p[2])

\* the partial period is there to stay: ensureMonthlyTasks ran again, found
\* rows and returned
C25_PartialAfterRerun ==
  /\ ens["boot"].pc = "done"
  /\ <<NowMonth, NowYear>> \in ensured
  /\ ~PeriodWhole(NowMonth, NowYear)

\* the same, with what the runtime guarantees: a queued statement runs and
\* its callback is called, and the cron job fires when it is due
FairEnsure ==
  /\ SpecEnsure
  /\ WF_vars(SqlCron)
  /\ \A e \in EnsureProcs :
       /\ WF_vars(SqlEnsureRead(e))
       /\ WF_vars(SqlCreateInsert(e))
       /\ WF_vars(SqlCreateFinalize(e))
  /\ WF_vars(JsonEnsure("cron"))

\* startServer has been called
Started == ens["boot"].pc # "idle"

\* C26: if the store stays available, the Task rows of every month during
\* which the server is running eventually exist: created at boot when
\* missing, or by the 00:01 job on the 1st when the server was running at
\* rollover
C26_MonthlyTasksEventuallyExist ==
  ([]~faulted) => [](Started => <>PeriodWhole(NowMonth, NowYear))

\* the server ran into the next month and the cron job created its rows
C26_Witness ==
  /\ ~faulted
  /\ PeriodOf(now) # FirstPeriod
  /\ ens["boot"].pc = "done"
  /\ ens["cron"].pc = "done"
  /\ PeriodWhole(getMonth(FirstPeriod) + 1, getFullYear(FirstPeriod))
  /\ PeriodWhole(NowMonth, NowYear)

\* C27: calculateMonthlyAssignments gives distinct catalog tasks to distinct
\* roommates whenever the catalog is no longer than the roster (as both
\* catalogs are), and every assignee is a roster member and so one of the
\* bootstrapped users
C27_DistinctAssignees ==
  /\ Len(TASKS) <= Len(ROOMMATES)
  /\ \A k \in 1..Len(calc.window) :
       LET a == calc.window[k].assignments
       IN /\ \A i, j \in 1..Len(a) :
               i # j => (a[i][1] # a[j][1] /\ a[i][2] # a[j][2])
          /\ \A i \in 1..Len(a) :
               /\ \E r \in 1..Len(ROOMMATES) : ROOMMATES[r] = a[i][2]
               /\ \E u \in 1..Len(usersTable) : usersTable[u].username = a[i][2]

\* a month of the four-task catalog: the whole roster is assigned
C27_Witness ==
  /\ variant = "json"
  /\ Len(calc.window) = Len(ROOMMATES)
  /\ \A k \in 1..Len(calc.window) :
       {calc.window[k].assignments[i][2] : i \in 1..Len(calc.window[k].assignments)}
         = {ROOMMATES[r] : r \in 1..Len(ROOMMATES)}

\* one browser session against the booted server: it logs in and out as one
\* of two users, completes tasks and asks for reports
WebSessions == {"s1"}
WebIdentifiers == Actors
WebPasswords == {defaultUsers[i].password : i \in 1..2}

WebNext ==
  \/ \E sid \in WebSessions, identifier \in WebIdentifiers, password \in WebPasswords :
       Login(sid, identifier, password)
  \/ \E sid \in WebSessions : Logout(sid)
  \/ \E sid \in WebSessions, endpoint \in AllEndpoints : Unauthorized(sid, endpoint)
  \/ \E sid \in WebSessions, c \in ReportCalls : SqlPostTasksComplete(sid, c)
  \/ \E c \in ReportCalls : SqlExecUpdate(c)
  \/ \E c \in ReportCalls : SqlExecSelect(c)
  \/ \E c \in ReportCalls : SqlExecInsertHistory(c)
  \/ \E sid \in WebSessions, c \in ReportCalls : JsonPostTasksComplete(sid, c)
  \/ \E sid \in WebSessions : SqlGetReportsCurrent(sid)
  \/ \E sid \in WebSessions : SqlPostReportsGenerate(sid)
  \/ SqlGenUsers("admin")
  \/ SqlGenGet("ondemand")
  \/ \E g \in {"admin", "ondemand"} : SqlGenSelect(g)
  \/ \E g \in {"admin", "ondemand"} : SqlGenInsert(g)

SpecWeb == BootedInit /\ [][WebNext]_vars

\* a handler behind requireAuth starts work for a request
StartsCompletion(c) == calls[c].pc = "idle" /\ calls'[c].pc # "idle"
StartsGeneration(g) == gens[g].pc = "idle" /\ gens'[g].pc # "idle"

\* C28: every task, status, history and report endpoint answers a request
\* without a logged-in session with 401 and performs no store operation;
\* once POST /api/logout has succeeded, a request on that session cannot
\* complete a task or generate reports until a new login succeeds
C28_NoSessionNoAccess ==
  [][/\ (reply' # reply /\ reply'.endpoint \in AllEndpoints)
          => /\ reply'.status = 401
             /\ sessions[reply'.sid] = NoUser
             /\ UNCHANGED <<tasks, task_history, monthly_reports, calls, gens, sessions>>
     /\ \A c \in Calls :
          StartsCompletion(c)
            => \E sid \in SessionIds :
                 sessions[sid] # NoUser /\ calls'[c].username = sessions[sid].username
     /\ \A g \in {"admin", "ondemand"} :
          StartsGeneration(g) => \E sid \in SessionIds : sessions[sid] # NoUser
     /\ (reply'.endpoint = "POST /api/logout" /\ reply'.status = 200)
          => sessions'[reply'.sid] = NoUser
     /\ \A sid \in WebSessions :
          (sessions'[sid] = NoUser /\ listening')
            => \A endpoint \in Endpoints : (ENABLED Unauthorized(sid, endpoint))'
    ]_vars

\* a user logged in and completed a task, logged out, and the next
\* completion request on the session was answered 401
C28_Witness ==
  /\ \E c \in Calls : calls[c].result = "ok"
  /\ reply = Reply("POST /api/tasks/complete", "s1", 401)
  /\ sessions["s1"] = NoUser

\* the on-demand run takes a step
OnDemandStep(pc) == gens["ondemand"].pc = pc /\ gens'["ondemand"] # gens["ondemand"]

\* the report stored for the key of the on-demand run
OnDemandStored ==
  getMonthlyReport(users[gens["ondemand"].ui].id, gens["ondemand"].month,
                   gens["ondemand"].year)

\* C29: in the SQLite variant GET /api/reports/current generates and stores
\* a report only when none is stored for (user, current month, current
\* year); a stored report is returned as it is and stays as it is, whatever
\* was completed since, until generateAllMonthlyReports runs for the period
C29_OnDemandOnlyWhenAbsent ==
  [][variant = "sqlite" =>
       /\ (OnDemandStep("get") /\ OnDemandStored # <<>> /\ gens'["ondemand"].result = "ok")
            => /\ gens'["ondemand"].fetched = <<Head(OnDemandStored)>>
               /\ gens'["ondemand"].pc = "done"
               /\ monthly_reports' = monthly_reports
       /\ (OnDemandStep("insert") /\ gens'["ondemand"].result = "ok")
            => OnDemandStored = <<>>
    ]_vars

====
